---- MODULE Spec2Model ----
(***************************************************************************)
(* Model of the RTT measurement server of mandelmonkey/latency-test.       *)
(*                                                                         *)
(* The handshake is the POST /reportLatency handler of the multi-round     *)
(* variant that also tracks the lowest RTT (src/unnamed/part_001, lines    *)
(* 1-549; src/server.ts and src/unnamed/part_000 hold the same handler     *)
(* without the lowestRttMs field).  The handler runs on Node's single      *)
(* thread: it runs to completion except at its one `await`, the            *)
(* updateOne of the final round.  A handler is therefore two steps: the    *)
(* synchronous part up to the await, and the continuation that runs when   *)
(* the write has succeeded or failed.  Other requests and the timer run    *)
(* between the two.                                                        *)
(*                                                                         *)
(* Time is the wall clock in milliseconds (Date.now()) of a machine whose  *)
(* clock is not set back during the run.  The clock moves by one           *)
(* millisecond (in the first milliseconds of a run) or straight to the     *)
(* next due time of the cleanup timer; the timer callback runs at its due  *)
(* time or some milliseconds after it, and the timer is armed again from   *)
(* the time of the run.  A step that reads the clock more than once may    *)
(* find it moved on at a later read, by as much as the clock can move.     *)
(*                                                                         *)
(* A session is named by its number in the order of creation; its token   *)
(* is a random string that may repeat an earlier one, so tokenMap.set may  *)
(* replace the entry of another session.                                   *)
(*                                                                         *)
(* Spec is one session through all its rounds; PairSpec is two sessions    *)
(* side by side, one of them through all its rounds; SelSpec is GET        *)
(* /closestServer/:userId                                                  *)
(* (src/server.ts, lines 475-516, and src/unnamed/part_001, lines          *)
(* 488-518) applied to the documents of one user; StoreSpec is MongoDB at  *)
(* work on the updateOne calls the programs of the repository send, in     *)
(* each of their three forms; ClientSpec is one runTestForEndpoint call    *)
(* (src/unnamed/part_001, lines 224-284) against the handler behind        *)
(* reportLatencyLimiter (lines 10-21); SingleSpec is the single-round      *)
(* handler of src/unnamed/part_002 (lines 52-103), a program without a      *)
(* limiter.  In Spec and PairSpec the limiter counts every request and the *)
(* runs stay below its limit; in ClientSpec the runs begin near it.        *)
(***************************************************************************)
EXTENDS Integers, Sequences, FiniteSets, TLC

\* ------------------------------------------------------------- bounds
\* Tokens the server may generate in one run.
MaxTokens == 1
\* One-millisecond clock steps, all taken before the first timer due time.
MaxFineTicks == 1
\* Timer periods the clock may run through.
MaxSweeps == 3
\* Milliseconds a run of the timer callback may come after its due time.
MaxLate == 1
\* Requests to POST /reportLatency in one run.
MaxRequests == 7
\* Requests to POST /reportLatency in a run with one session more.
MaxPairRequests == 7
\* Documents one user may have in the collection, one per region.
MaxDocs == 3
\* updateOne calls the database receives in one run.
MaxUpserts == 2
\* Milliseconds the clock runs while the database works on them.
MaxStoreTime == 1
\* Requests one runTestForEndpoint call may send with its token.
MaxClientCalls == 7
\* Milliseconds the clock runs in a run of the single-round handler.
MaxSingleTime == 2

\* -------------------------------------------------- program constants
DEFAULT_TOTAL_ITERATIONS == 5
LATENCY_CLOSE_THRESHOLD_MS == 150
EXPIRATION_MS == 60000
CLEANUP_INTERVAL_MS == 30000
\* rateLimit({max: 100}): the requests of one IP let through in a window.
reportLatencyLimiterMax == 100
\* Number.MAX_SAFE_INTEGER = 2^53 - 1 = 9007199254740991.  The model
\* checker's integers have 32 bits, so state.lowestRttMs, the one number
\* of the program that takes this value, is held in two parts of nine
\* decimal digits: hi * 10^9 + lo.
MAX_SAFE_INTEGER == [hi |-> 9007199, lo |-> 254740991]

\* The last due time of the timer the clock runs up to.
MaxTime == MaxSweeps * CLEANUP_INTERVAL_MS

\* --------------------------------------------------------- value sets
Tokens == 1..MaxTokens
\* The tokens of the runs with one session more.
AllTokens == 1..(MaxTokens + 1)
UserIds == {"u1", "u2"}
\* req.body.userId / req.body.token when the field is absent or empty.
Missing == "missing"
NoToken == 0
NoState == [absent |-> TRUE]
NoDoc == [absent |-> TRUE]
NoResp == [kind |-> "none", wrote |-> "none"]
NoQuery == [status |-> 0, found |-> FALSE, msg |-> "none"]
\* closest: null
Null == [null |-> TRUE]
\* What `return;` returns.
Undefined == [undefined |-> TRUE]

VARIABLES
  now,         \* the wall clock, ms
  nextSweep,   \* due time of the next cleanupTokenMap run
  tokenCount,  \* sessions created so far; a session is named by its
               \* number in the order of creation
  tokenOf,     \* the token drawn for each session
  tokenMap,    \* the in-memory Map token => TestState: the sessions it
               \* holds, each under its token
  testState,   \* the TestState object of each session
  pending,     \* handlers waiting at `await latencyColl.updateOne(...)`
  latencyColl, \* the collection: the document of (userId, SERVER_REGION)
  resp,        \* the response sent last; call, wrote and sumN annotate it:
               \* which call it answers, how that call's write ended, and
               \* the sum of the samples of the token's first rounds
  hist,        \* per token: what has been observed of it (history)
  docs,        \* GET /closestServer: what find({userId}).toArray() returned
  query,       \* GET /closestServer: the response sent last
  variant,     \* the database at work: which form of update it is sent
  calls,       \* the database at work: updateOne calls received so far
  stored,      \* the database at work: per userId, the documents that
               \* match {userId, region: SERVER_REGION}, in insertion order
  inflight,    \* the database at work: updateOne calls received and not
               \* finished
  applied,     \* per userId, the calls applied so far, in order (history)
  client,      \* runTestForEndpoint: where the call is, its token, the
               \* requests it has sent with the token, what it returned
  wire,        \* between the client and the server: the request sent and
               \* not yet handled, or the response not yet read
  hits         \* reportLatencyLimiter: requests counted in the window

\* The state of GET /closestServer, which POST /reportLatency and the
\* timer leave alone.
selVars == <<docs, query>>

\* The state of the database at work on updateOne calls, which the
\* handlers as modelled in Spec, PairSpec and SelSpec leave alone: there
\* a call is one step on latencyColl.
storeVars == <<variant, calls, stored, inflight, applied>>

\* The runTestForEndpoint call and its connection to the server.  In Spec
\* and PairSpec any caller may send a request; in ClientSpec the requests
\* are those of one runTestForEndpoint call.
callers == <<client, wire>>

\* The state of the client and of the rate limiter in front of POST
\* /reportLatency.  SelSpec, StoreSpec and SingleSpec are about routes and
\* programs that have no limiter.
clientVars == <<client, wire, hits>>

\* What the timer leaves alone.
allOther == <<selVars, storeVars, clientVars>>

\* The state of POST /reportLatency and of the timer.
handshakeVars == <<now, nextSweep, tokenCount, tokenOf,
                 tokenMap,   testState, pending, latencyColl, resp, hist>>

vars == <<now, nextSweep, tokenCount, tokenOf, tokenMap, testState,
          pending, latencyColl, resp, hist, docs, query, variant, calls,
          stored, inflight, applied, client, wire, hits>>

\* ------------------------------------------------------ pure helpers
Min(a, b) == IF a <= b THEN a ELSE b

\* The number n in two parts.
Wide(n) == [hi |-> n \div 1000000000, lo |-> n % 1000000000]

\* The number a value in two parts stands for.
Value(w) == w.hi * 1000000000 + w.lo

\* Math.min(w, n) for w in two parts.
MathMin(w, n) ==
  IF \/ w.hi > Wide(n).hi
     \/ w.hi = Wide(n).hi /\ w.lo > Wide(n).lo
  THEN Wide(n) ELSE w

\* Math.round(a / b) for a >= 0, b > 0: the nearest integer, halves up.
MathRound(a, b) == (2 * a + b) \div (2 * b)

NewHist == [observed |-> << >>, sumN |-> 0, upserts |-> 0,
            finished |-> 0, completed |-> 0]

\* An object no Map entry and no waiting handler refers to is garbage.
Collect(ts, tm, pd) ==
  [t \in AllTokens |->
     IF t \in tm \/ (\E h \in pd : h.session = t) THEN ts[t] ELSE NoState]

\* The history keeps the sum of a token's samples as long as its object.
Forget(hs, ts) ==
  [t \in AllTokens |-> IF ts[t] = NoState THEN [hs[t] EXCEPT !.sumN = 0]
                                       ELSE hs[t]]

\* The requests to POST /reportLatency so far: the limiter counts each.
Requests == hits

\* ------------------------------------------------------------- Init
HandshakeInit ==
  /\ now = 0
  /\ nextSweep = CLEANUP_INTERVAL_MS
  /\ tokenCount = 0
  /\ tokenOf = [t \in AllTokens |-> NoToken]
  /\ tokenMap = {}
  /\ testState = [t \in AllTokens |-> NoState]
  /\ pending = {}
  /\ latencyColl = [u \in UserIds |-> NoDoc]
  /\ resp = NoResp
  /\ hist = [t \in AllTokens |-> NewHist]

\* No updateOne call has reached the database.
StoreStart ==
  /\ calls = 0
  /\ stored = [u \in UserIds |-> << >>]
  /\ inflight = {}
  /\ applied = [u \in UserIds |-> << >>]

\* No runTestForEndpoint call is under way; the limiter has counted
\* nothing.
NoClient == [pc |-> "none"]

\* Nothing is on its way between the client and the server.
NoMessage == [dir |-> "none"]

ClientIdle ==
  /\ client = NoClient
  /\ wire = NoMessage
  /\ hits = 0

Init ==
  /\ HandshakeInit
  /\ docs = << >>
  /\ query = NoQuery
  /\ variant = "min"
  /\ StoreStart
  /\ ClientIdle

\* ------------------------------------------------------------ clock
\* Time passes: one millisecond, or up to the timer's next due time.
\* Node runs a timer callback at its due time or later: the clock may
\* pass the due time, by up to MaxLate milliseconds, before the callback
\* has run.
After(t) ==
  IF t < nextSweep
  THEN {t + d : d \in {e \in {1, nextSweep - t} :
                          /\ e = 1 => t < MaxFineTicks
                          /\ t + e <= MaxTime}}
  ELSE IF t < nextSweep + MaxLate THEN {t + 1} ELSE {}

Tick ==
  /\ now' \in After(now)
  /\ UNCHANGED <<allOther, nextSweep, tokenCount, tokenOf,
                 tokenMap, testState, pending, latencyColl, resp, hist>>

\* A statement reads the clock after another statement of the same turn
\* has read t.  Nothing bounds the time between two statements: the
\* clock shows t or any time it can have moved on to, the timer's due
\* time and the milliseconds after it included; the timer callback does
\* not run before the turn has ended.
RECURSIVE LaterDate(_)
LaterDate(t) == {t} \cup UNION {LaterDate(u) : u \in After(t)}

\* ------------------------------------------------- cleanupTokenMap
\* Variant: the age is compared as if EXPIRATION_MS were in seconds.
ExpiredInSeconds(s, t) == t - s.startTracking > EXPIRATION_MS * 1000

\* Variant: a session is given one more period of the timer.
ExpiredLate(s, t) ==
  t - s.startTracking > EXPIRATION_MS + CLEANUP_INTERVAL_MS

\* if (now - state.startTracking.getTime() > EXPIRATION_MS)
Expired(s, t) == t - s.startTracking > EXPIRATION_MS

\* The callback of setInterval(cleanupTokenMap, CLEANUP_INTERVAL_MS),
\* run at its due time or after it; `now` is the Date.now() it reads.
\* The timer is armed again for CLEANUP_INTERVAL_MS after the start of
\* the run on the timer's own clock, which is `now` or, the two clocks
\* being rounded apart, the millisecond before it.
cleanupTokenMap ==
  /\ now >= nextSweep
  /\ LET kept == {t \in tokenMap : ~Expired(testState[t], now)}
     IN /\ tokenMap' = kept
        /\ testState' = Collect(testState, kept, pending)
  /\ hist' = Forget(hist, testState')
  /\ \E start \in {now - 1, now} :
       /\ start >= nextSweep
       /\ nextSweep' = start + CLEANUP_INTERVAL_MS
  /\ UNCHANGED <<allOther, now, tokenCount, tokenOf, pending, latencyColl,
                 resp>>

\* ------------------------------------------------ POST /reportLatency
\* tokenMap.get(token): the session the Map holds under the token.
NoSession == 0

Get(token) ==
  IF \E s \in tokenMap : tokenOf[s] = token
  THEN CHOOSE s \in tokenMap : tokenOf[s] = token
  ELSE NoSession

\* Variant: the limiter lets every request through.
LimiterOff == FALSE

\* express-rate-limit counts the request and calls `handler` in place of
\* the route's handler when the count exceeds max.
Limited == hits + 1 > reportLatencyLimiterMax

\* app.post("/reportLatency", reportLatencyLimiter, handler): the limiter
\* counts the request of the caller's address and, below the limit, hands
\* it to the handler.  The requests of a run come from one address.
LetThrough ==
  /\ ~Limited
  /\ hits' = hits + 1

\* Variant: the session is looked up and advanced before userId is
\* checked.
MissingUserIdAfterAdvance(token) ==
  /\ resp' = [kind |-> "invalid", status |-> 400, wrote |-> "none"]
  /\ testState' = [t \in AllTokens |->
                     IF t = Get(token)
                     THEN [testState[t] EXCEPT !.iteration = @ + 1]
                     ELSE testState[t]]
  /\ LetThrough
  /\ UNCHANGED <<selVars, storeVars, now, nextSweep, tokenCount, tokenOf,
                 tokenMap, pending, latencyColl, hist>>

\* if (!userId): 400, nothing else happens, whatever token the request
\* carries.
MissingUserId(token) ==
  /\ resp' = [kind |-> "invalid", status |-> 400, wrote |-> "none"]
  /\ LetThrough
  /\ UNCHANGED <<selVars, storeVars, now, nextSweep, tokenCount, tokenOf,
                 tokenMap, testState, pending, latencyColl, hist>>

\* crypto.randomBytes(8).toString("hex"): one of 2^64 strings, drawn
\* without a look at tokenMap.  A string is named by the number of the
\* session it was first drawn for: the draw is a string not drawn before
\* or any of those drawn before.
RandomToken == {tokenCount + 1} \cup {tokenOf[s] : s \in 1..tokenCount}

\* Variant: the call that creates the session counts as its first round.
NewStateCounted(userId, t) ==
  [userId |-> userId, iteration |-> 1,
   totalIterations |-> DEFAULT_TOTAL_ITERATIONS, sumOfRTTs |-> 0,
   lowestRttMs |-> MAX_SAFE_INTEGER, startTracking |-> t]

NewState(userId, t) ==
  [userId |-> userId, iteration |-> 0,
   totalIterations |-> DEFAULT_TOTAL_ITERATIONS, sumOfRTTs |-> 0,
   lowestRttMs |-> MAX_SAFE_INTEGER, startTracking |-> t]

\* tokenMap.set(token, newState): the entry under the token, if there is
\* one, is replaced.
Set(token, session) == (tokenMap \ {Get(token)}) \cup {session}

\* Variant: the userId of the latest first call is written to every
\* session in the Map.
CreateSessionForAll(userId) ==
  /\ userId # Missing
  /\ tokenCount' = tokenCount + 1
  /\ \E token \in RandomToken :
       LET session == tokenCount + 1
       IN /\ tokenOf' = [tokenOf EXCEPT ![session] = token]
          /\ tokenMap' = Set(token, session)
          /\ testState' =
               Collect([t \in AllTokens |->
                          IF t = session THEN NewState(userId, now)
                          ELSE IF t \in tokenMap
                               THEN [testState[t] EXCEPT !.userId = userId]
                               ELSE testState[t]],
                       tokenMap', pending)
          /\ resp' = [kind |-> "token", status |-> 200, token |-> token,
                      session |-> session,
                      totalIterations |-> DEFAULT_TOTAL_ITERATIONS,
                      wrote |-> "none"]
  /\ hist' = Forget(hist, testState')
  /\ LetThrough
  /\ UNCHANGED <<selVars, storeVars, now, nextSweep, pending, latencyColl>>

\* Variant: a user has one session at a time; the new session takes the
\* place of those the Map holds for its user.
CreateSessionOnePerUser(userId) ==
  /\ userId # Missing
  /\ tokenCount' = tokenCount + 1
  /\ \E token \in RandomToken :
       LET session == tokenCount + 1
       IN /\ tokenOf' = [tokenOf EXCEPT ![session] = token]
          /\ tokenMap' =
               {t \in Set(token, session) :
                  t = session \/ testState[t].userId # userId}
          /\ testState' =
               Collect([testState EXCEPT ![session] = NewState(userId, now)],
                       tokenMap', pending)
          /\ resp' = [kind |-> "token", status |-> 200, token |-> token,
                      session |-> session,
                      totalIterations |-> DEFAULT_TOTAL_ITERATIONS,
                      wrote |-> "none"]
  /\ hist' = Forget(hist, testState')
  /\ LetThrough
  /\ UNCHANGED <<selVars, storeVars, now, nextSweep, pending, latencyColl>>

\* if (!token): the first call of the sequence.
CreateSession(userId) ==
  /\ userId # Missing
  /\ tokenCount' = tokenCount + 1
  /\ \E token \in RandomToken :
       LET session == tokenCount + 1
       IN /\ tokenOf' = [tokenOf EXCEPT ![session] = token]
          /\ tokenMap' = Set(token, session)
          /\ testState' =
               Collect([testState EXCEPT ![session] = NewState(userId, now)],
                       tokenMap', pending)
          /\ resp' = [kind |-> "token", status |-> 200, token |-> token,
                      session |-> session,
                      totalIterations |-> DEFAULT_TOTAL_ITERATIONS,
                      wrote |-> "none"]
  /\ hist' = Forget(hist, testState')
  /\ LetThrough
  /\ UNCHANGED <<selVars, storeVars, now, nextSweep, pending, latencyColl>>

FirstCall(userId) ==
  /\ tokenCount < MaxTokens
  /\ Requests < MaxRequests
  /\ CreateSession(userId)
  /\ UNCHANGED callers

\* A run in which the server creates one session more.
SecondCall(userId) ==
  /\ tokenCount < MaxTokens + 1
  /\ Requests < MaxPairRequests
  /\ CreateSession(userId)
  /\ UNCHANGED callers

\* Variant: a token the Map does not hold any more starts its session
\* anew.
TokenNotFoundCreates(userId, token) ==
  /\ userId # Missing
  /\ token # NoToken
  /\ Get(token) = NoSession
  /\ \E session \in 1..tokenCount :
       /\ tokenOf[session] = token
       /\ tokenMap' = tokenMap \cup {session}
       /\ testState' = [testState EXCEPT ![session] = NewState(userId, now)]
       /\ resp' = [kind |-> "token", status |-> 200, token |-> token,
                   session |-> session,
                   totalIterations |-> DEFAULT_TOTAL_ITERATIONS,
                   wrote |-> "none"]
  /\ LetThrough
  /\ UNCHANGED <<selVars, storeVars, now, nextSweep, tokenCount, tokenOf,
                 pending, latencyColl, hist>>

\* const state = tokenMap.get(token); if (!state): 404.
TokenNotFound(userId, token) ==
  /\ userId # Missing
  /\ token # NoToken
  /\ Get(token) = NoSession
  /\ resp' = [kind |-> "notfound", status |-> 404, token |-> token,
              wrote |-> "none"]
  /\ LetThrough
  /\ UNCHANGED <<selVars, storeVars, now, nextSweep, tokenCount, tokenOf,
                 tokenMap, testState, pending, latencyColl, hist>>

\* Variant: the counter stops at totalIterations.
AdvanceClamped(s, t) ==
  [s EXCEPT !.sumOfRTTs = s.sumOfRTTs + (t - s.startTracking),
            !.lowestRttMs = MathMin(s.lowestRttMs, t - s.startTracking),
            !.iteration = Min(s.iteration + 1, s.totalIterations)]

\* Variant: lowestRttMs holds the latest sample.
AdvanceLatest(s, t) ==
  [s EXCEPT !.sumOfRTTs = s.sumOfRTTs + (t - s.startTracking),
            !.lowestRttMs = Wide(t - s.startTracking),
            !.iteration = s.iteration + 1]

\* rttMs = now - startTracking; sumOfRTTs += rttMs; lowestRttMs =
\* Math.min(lowestRttMs, rttMs); iteration += 1.
Advance(s, t) ==
  [s EXCEPT !.sumOfRTTs = s.sumOfRTTs + (t - s.startTracking),
            !.lowestRttMs = MathMin(s.lowestRttMs, t - s.startTracking),
            !.iteration = s.iteration + 1]

\* Variant: the final round is one call late.
IsDoneStrict(s) == s.iteration > s.totalIterations

\* if (state.iteration >= state.totalIterations)
IsDone(s) == s.iteration >= s.totalIterations

\* History: the iteration value the call produced, and the sum of the
\* elapsed times of the first totalIterations calls.
Observe(h, old, new, t) ==
  [h EXCEPT !.observed = Append(h.observed, new.iteration),
            !.sumN = IF new.iteration <= new.totalIterations
                     THEN h.sumN + (t - old.startTracking) ELSE h.sumN]

\* Variant: the else branch leaves startTracking as it is.
NextIterationNoReset(userId, token) ==
  /\ userId # Missing
  /\ Get(token) # NoSession
  /\ LET s == Advance(testState[Get(token)], now)
     IN /\ ~IsDone(s)
        /\ testState' = [testState EXCEPT ![Get(token)] = s]
        /\ resp' = [kind |-> "progress", status |-> 200, token |-> token,
                    session |-> Get(token),
                    iterationSoFar |-> s.iteration,
                    totalIterations |-> s.totalIterations, wrote |-> "none"]
        /\ hist' = [hist EXCEPT ![Get(token)] =
                      Observe(hist[Get(token)], testState[Get(token)], s, now)]
  /\ LetThrough
  /\ UNCHANGED <<selVars, storeVars, now, nextSweep, tokenCount, tokenOf,
                 tokenMap, pending, latencyColl>>

\* Variant: every round writes the document of its session's user.
NextIterationWrites(userId, token) ==
  /\ userId # Missing
  /\ Get(token) # NoSession
  /\ LET s == Advance(testState[Get(token)], now)
     IN /\ ~IsDone(s)
        /\ testState' = [testState EXCEPT ![Get(token)] =
                           [s EXCEPT !.startTracking = now]]
        /\ latencyColl' = [latencyColl EXCEPT ![s.userId] =
                             [lastPingMs |-> s.sumOfRTTs,
                              lowestPingMs |-> Value(s.lowestRttMs),
                              updatedAt |-> now, createdAt |-> now]]
        /\ resp' = [kind |-> "progress", status |-> 200, token |-> token,
                    session |-> Get(token),
                    iterationSoFar |-> s.iteration,
                    totalIterations |-> s.totalIterations, wrote |-> "none"]
        /\ hist' = [hist EXCEPT ![Get(token)] =
                      Observe(hist[Get(token)], testState[Get(token)], s, now)]
  /\ LetThrough
  /\ UNCHANGED <<selVars, storeVars, now, nextSweep, tokenCount, tokenOf,
                 tokenMap, pending>>

\* Variant: the request's userId must be the session's.
NextIterationOwnUser(userId, token) ==
  /\ userId # Missing
  /\ Get(token) # NoSession
  /\ userId = testState[Get(token)].userId
  /\ LET s == Advance(testState[Get(token)], now)
     IN /\ ~IsDone(s)
        /\ testState' = [testState EXCEPT ![Get(token)] =
                           [s EXCEPT !.startTracking = now]]
        /\ resp' = [kind |-> "progress", status |-> 200, token |-> token,
                    session |-> Get(token),
                    iterationSoFar |-> s.iteration,
                    totalIterations |-> s.totalIterations, wrote |-> "none"]
        /\ hist' = [hist EXCEPT ![Get(token)] =
                      Observe(hist[Get(token)], testState[Get(token)], s, now)]
  /\ LetThrough
  /\ UNCHANGED <<selVars, storeVars, now, nextSweep, tokenCount, tokenOf,
                 tokenMap, pending, latencyColl>>

\* The else branch: more rounds remain; startTracking = now.
NextIteration(userId, token) ==
  /\ userId # Missing
  /\ Get(token) # NoSession
  /\ LET s == Advance(testState[Get(token)], now)
     IN /\ ~IsDone(s)
        /\ testState' = [testState EXCEPT ![Get(token)] =
                           [s EXCEPT !.startTracking = now]]
        /\ resp' = [kind |-> "progress", status |-> 200, token |-> token,
                    session |-> Get(token),
                    iterationSoFar |-> s.iteration,
                    totalIterations |-> s.totalIterations, wrote |-> "none"]
        /\ hist' = [hist EXCEPT ![Get(token)] =
                      Observe(hist[Get(token)], testState[Get(token)], s, now)]
  /\ LetThrough
  /\ UNCHANGED <<selVars, storeVars, now, nextSweep, tokenCount, tokenOf,
                 tokenMap, pending, latencyColl>>

\* The handler of a final round at its await: what it holds in locals
\* (avgRttMs; at, the time `now` it measured with), what it passed to
\* updateOne (evaluated at the call: state.lowestRttMs and the two
\* `new Date()` of the update), and which call on the session it is;
\* `state` is the session's object, whatever tokenMap holds under the
\* token by then.
Waiting(token, session, s, t, updatedAt, createdAt) ==
  [token |-> token, session |-> session, userId |-> s.userId,
   avgRttMs |-> MathRound(s.sumOfRTTs, s.totalIterations),
   lowestRttMs |-> Value(s.lowestRttMs), at |-> t,
   updatedAt |-> updatedAt, createdAt |-> createdAt, call |-> s.iteration]

\* Variant: the write is not awaited; the handler answers at once and the
\* write finishes later.
FinalIterationNoAwait(userId, token) ==
  /\ userId # Missing
  /\ Get(token) # NoSession
  /\ LET s == Advance(testState[Get(token)], now)
     IN /\ IsDone(s)
        /\ testState' = [testState EXCEPT ![Get(token)] = s]
        /\ \E updatedAt \in LaterDate(now) :
             \E createdAt \in LaterDate(updatedAt) :
               /\ pending' = pending \cup
                    {Waiting(token, Get(token), s, now, updatedAt,
                             createdAt)}
               /\ now' = createdAt
        /\ resp' = [kind |-> "completed", status |-> 200, token |-> token,
                    session |-> Get(token),
                    avgRttMs |-> MathRound(s.sumOfRTTs, s.totalIterations),
                    lowestPingMs |-> Value(s.lowestRttMs),
                    totalIterations |-> s.totalIterations,
                    call |-> s.iteration, wrote |-> "none",
                    sumN |-> hist[Get(token)].sumN]
        /\ hist' = [hist EXCEPT ![Get(token)] =
                      [Observe(hist[Get(token)], testState[Get(token)], s, now)
                         EXCEPT !.upserts = @ + 1, !.completed = @ + 1]]
  /\ LetThrough
  /\ UNCHANGED <<selVars, storeVars, nextSweep, tokenCount, tokenOf,
                 tokenMap, latencyColl>>

\* The then branch up to `await latencyColl.updateOne(...)`.  The
\* clock is read three times: `now` for the sample, then `new Date()`
\* for updatedAt and again for createdAt as the arguments of updateOne
\* are evaluated; it shows the last of the three when the step ends.
FinalIteration(userId, token) ==
  /\ userId # Missing
  /\ Get(token) # NoSession
  /\ LET s == Advance(testState[Get(token)], now)
     IN /\ IsDone(s)
        /\ testState' = [testState EXCEPT ![Get(token)] = s]
        /\ \E updatedAt \in LaterDate(now) :
             \E createdAt \in LaterDate(updatedAt) :
               /\ pending' = pending \cup
                    {Waiting(token, Get(token), s, now, updatedAt,
                             createdAt)}
               /\ now' = createdAt
        /\ hist' = [hist EXCEPT ![Get(token)] =
                      [Observe(hist[Get(token)], testState[Get(token)], s, now)
                         EXCEPT !.upserts = @ + 1]]
  /\ LetThrough
  /\ UNCHANGED <<selVars, storeVars, nextSweep, tokenCount, tokenOf,
                 tokenMap, latencyColl, resp>>

\* Variant: lowestPingMs is written on insert only.
UpdateOneNoMin(doc, h) ==
  IF doc = NoDoc
  THEN [lastPingMs |-> h.avgRttMs, lowestPingMs |-> h.lowestRttMs,
        updatedAt |-> h.updatedAt, createdAt |-> h.createdAt]
  ELSE [doc EXCEPT !.lastPingMs = h.avgRttMs, !.updatedAt = h.updatedAt]

\* updateOne(filter, {$set, $min, $setOnInsert}, {upsert: true}) on the
\* document of (h.userId, SERVER_REGION); updatedAt and createdAt are the
\* dates the caller read as it made the call.
UpdateOne(doc, h) ==
  IF doc = NoDoc
  THEN [lastPingMs |-> h.avgRttMs, lowestPingMs |-> h.lowestRttMs,
        updatedAt |-> h.updatedAt, createdAt |-> h.createdAt]
  ELSE [doc EXCEPT !.lastPingMs = h.avgRttMs,
                   !.lowestPingMs = Min(doc.lowestPingMs, h.lowestRttMs),
                   !.updatedAt = h.updatedAt]

\* Variant: the completion removes every session of its user from the
\* Map.
UpdateOneResolvedForUser(h) ==
  /\ h \in pending
  /\ latencyColl' = [latencyColl EXCEPT ![h.userId] = UpdateOne(@, h)]
  /\ tokenMap' = {t \in tokenMap \ {Get(h.token)} :
                    testState[t].userId # h.userId}
  /\ pending' = pending \ {h}
  /\ testState' = Collect(testState, tokenMap', pending')
  /\ resp' = [kind |-> "completed", status |-> 200, token |-> h.token,
              session |-> h.session, avgRttMs |-> h.avgRttMs,
              lowestPingMs |-> Value(testState[h.session].lowestRttMs),
              totalIterations |-> testState[h.session].totalIterations,
              call |-> h.call, wrote |-> "ok",
              sumN |-> hist[h.session].sumN]
  /\ hist' = Forget([hist EXCEPT ![h.session] =
                       [@ EXCEPT !.finished = @ + 1, !.completed = @ + 1]],
                    testState')
  /\ UNCHANGED <<selVars, storeVars, hits, now, nextSweep, tokenCount,
                 tokenOf>>

\* The write succeeded: tokenMap.delete(token) removes what the Map
\* holds under the token; res.json({avgRttMs, lowestPingMs:
\* state.lowestRttMs, totalIterations}) reads the handler's own object.
UpdateOneResolved(h) ==
  /\ h \in pending
  /\ latencyColl' = [latencyColl EXCEPT ![h.userId] = UpdateOne(@, h)]
  /\ tokenMap' = tokenMap \ {Get(h.token)}
  /\ pending' = pending \ {h}
  /\ testState' = Collect(testState, tokenMap', pending')
  /\ resp' = [kind |-> "completed", status |-> 200, token |-> h.token,
              session |-> h.session, avgRttMs |-> h.avgRttMs,
              lowestPingMs |-> Value(testState[h.session].lowestRttMs),
              totalIterations |-> testState[h.session].totalIterations,
              call |-> h.call, wrote |-> "ok",
              sumN |-> hist[h.session].sumN]
  /\ hist' = Forget([hist EXCEPT ![h.session] =
                       [@ EXCEPT !.finished = @ + 1, !.completed = @ + 1]],
                    testState')
  /\ UNCHANGED <<selVars, storeVars, hits, now, nextSweep, tokenCount,
                 tokenOf>>

\* The write failed: the await throws, the catch answers 500; the
\* statements after the await, tokenMap.delete among them, do not run.
UpdateOneRejected(h) ==
  /\ h \in pending
  /\ pending' = pending \ {h}
  /\ testState' = Collect(testState, tokenMap, pending')
  /\ resp' = [kind |-> "error", status |-> 500, token |-> h.token,
              session |-> h.session, call |-> h.call, wrote |-> "failed"]
  /\ hist' = Forget([hist EXCEPT ![h.session] =
                       [@ EXCEPT !.finished = @ + 1]],
                    testState')
  /\ UNCHANGED <<selVars, storeVars, hits, now, nextSweep, tokenCount, tokenOf,
                 tokenMap, latencyColl>>

\* ------------------------------------------------------------- Next
Next ==
  \/ Tick
  \/ cleanupTokenMap
  \/ \E token \in Tokens \cup {NoToken} :
       Requests < MaxRequests /\ MissingUserId(token) /\ UNCHANGED callers
  \/ \E userId \in UserIds : FirstCall(userId)
  \/ \E userId \in UserIds, token \in Tokens :
       /\ Requests < MaxRequests
       /\ TokenNotFound(userId, token)
       /\ UNCHANGED callers
  \/ \E userId \in UserIds, token \in Tokens :
       /\ Requests < MaxRequests
       /\ NextIteration(userId, token)
       /\ UNCHANGED callers
  \/ \E userId \in UserIds, token \in Tokens :
       /\ Requests < MaxRequests
       /\ FinalIteration(userId, token)
       /\ UNCHANGED callers
  \/ \E h \in pending : UpdateOneResolved(h) /\ UNCHANGED callers
  \/ \E h \in pending : UpdateOneRejected(h) /\ UNCHANGED callers

Spec == Init /\ [][Next]_vars

\* Runs with one session more than in Spec.
PairNext ==
  \/ Tick
  \/ cleanupTokenMap
  \/ \E token \in AllTokens \cup {NoToken} :
       /\ Requests < MaxPairRequests
       /\ MissingUserId(token)
       /\ UNCHANGED callers
  \/ \E userId \in UserIds : SecondCall(userId)
  \/ \E userId \in UserIds, token \in AllTokens :
       /\ Requests < MaxPairRequests
       /\ TokenNotFound(userId, token)
       /\ UNCHANGED callers
  \/ \E userId \in UserIds, token \in AllTokens :
       /\ Requests < MaxPairRequests
       /\ NextIteration(userId, token)
       /\ UNCHANGED callers
  \/ \E userId \in UserIds, token \in AllTokens :
       /\ Requests < MaxPairRequests
       /\ FinalIteration(userId, token)
       /\ UNCHANGED callers
  \/ \E h \in pending : UpdateOneResolved(h) /\ UNCHANGED callers
  \/ \E h \in pending : UpdateOneRejected(h) /\ UNCHANGED callers

PairSpec == Init /\ [][PairNext]_vars

\* The timer fires when it is due and the clock keeps running.
FairSpec == Spec /\ WF_vars(Tick) /\ WF_vars(cleanupTokenMap)

\* -------------------------------------------- GET /closestServer/:userId
\* The handler reads the documents of one user, one per region, written
\* by the servers of the regions.  It is modelled on its own: the
\* documents are drawn at the start and the handler is applied to them.
Regions == {"eu", "jp", "us"}
Pings == {90, 150, 151, 200}

\* A document as the final round writes it: lowestPingMs is the $min of
\* samples, lastPingMs the rounded mean of the latest sequence's samples.
RegionDocs ==
  {d \in [region : Regions, lastPingMs : Pings, lowestPingMs : Pings,
          updatedAt : {0}] : d.lowestPingMs <= d.lastPingMs}

\* find({userId}).toArray(): the user's documents in the collection's
\* order, no two of one region.
DocArrays ==
  UNION {{a \in [1..n -> RegionDocs] :
            \A i, j \in 1..n : a[i].region = a[j].region => i = j}
         : n \in 0..MaxDocs}

\* Variant: an unstable sort, equal elements end up in reverse order.
RECURSIVE InsertBefore(_, _, _)
InsertBefore(sorted, d, key) ==
  IF sorted = << >> THEN <<d>>
  ELSE IF sorted[Len(sorted)][key] < d[key] THEN Append(sorted, d)
  ELSE Append(InsertBefore(SubSeq(sorted, 1, Len(sorted) - 1), d, key),
              sorted[Len(sorted)])

\* Array.prototype.sort((a, b) => a[key] - b[key]): ascending and stable.
RECURSIVE Insert(_, _, _)
Insert(sorted, d, key) ==
  IF sorted = << >> THEN <<d>>
  ELSE IF sorted[Len(sorted)][key] <= d[key] THEN Append(sorted, d)
  ELSE Append(Insert(SubSeq(sorted, 1, Len(sorted) - 1), d, key),
              sorted[Len(sorted)])

\* Variant: the array is left in the collection's order.
Unsorted(records, key) == records

RECURSIVE SortBy(_, _)
SortBy(records, key) ==
  IF records = << >> THEN << >>
  ELSE Insert(SortBy(SubSeq(records, 1, Len(records) - 1), key),
              records[Len(records)], key)

NoDataResponse(key) ==
  [status |-> 200, found |-> TRUE, msg |-> "No data from any server",
   by |-> key, closest |-> Null]

AboveThresholdResponse(key, bestMs) ==
  [status |-> 200, found |-> TRUE, msg |-> "above threshold", by |-> key,
   closest |-> Null, bestMs |-> bestMs]

\* Variant: the handler does not test records.length; records[0] is
\* undefined for an empty array and reading its field throws.
ClosestResponseNoEmptyTest(records) ==
  IF Len(records) = 0
  THEN [status |-> 500, found |-> TRUE, msg |-> "Internal server error"]
  ELSE LET best == SortBy(records, "lastPingMs")[1]
       IN IF best.lastPingMs > LATENCY_CLOSE_THRESHOLD_MS
          THEN AboveThresholdResponse("lastPingMs", best.lastPingMs)
          ELSE [status |-> 200, found |-> TRUE, msg |-> "Closest server",
                by |-> "lastPingMs",
                closest |-> [region |-> best.region,
                             lastPingMs |-> best.lastPingMs,
                             updatedAt |-> best.updatedAt]]

\* src/server.ts: the documents are compared by lastPingMs and the best
\* is tested against LATENCY_CLOSE_THRESHOLD_MS.  The response's userId
\* is left out; by says which field the handler compared.
ClosestResponse(records) ==
  IF Len(records) = 0 THEN NoDataResponse("lastPingMs")
  ELSE LET best == SortBy(records, "lastPingMs")[1]
       IN IF best.lastPingMs > LATENCY_CLOSE_THRESHOLD_MS
          THEN AboveThresholdResponse("lastPingMs", best.lastPingMs)
          ELSE [status |-> 200, found |-> TRUE, msg |-> "Closest server",
                by |-> "lastPingMs",
                closest |-> [region |-> best.region,
                             lastPingMs |-> best.lastPingMs,
                             updatedAt |-> best.updatedAt]]

\* src/unnamed/part_001, lines 488-518: the documents are compared by
\* lowestPingMs and the best is returned.
ClosestResponseLowest(records) ==
  IF Len(records) = 0 THEN NoDataResponse("lowestPingMs")
  ELSE LET best == SortBy(records, "lowestPingMs")[1]
       IN [status |-> 200, found |-> TRUE, msg |-> "Closest server",
           by |-> "lowestPingMs",
           closest |-> [region |-> best.region,
                        lastPingMs |-> best.lastPingMs,
                        lowestPingMs |-> best.lowestPingMs,
                        updatedAt |-> best.updatedAt]]

closestServer ==
  /\ query' = ClosestResponse(docs)
  /\ UNCHANGED <<docs, handshakeVars, storeVars, clientVars>>

closestServerLowest ==
  /\ query' = ClosestResponseLowest(docs)
  /\ UNCHANGED <<docs, handshakeVars, storeVars, clientVars>>

\* find() failed: the catch answers 500.
FindRejected ==
  /\ query' = [status |-> 500, found |-> FALSE,
               msg |-> "Internal server error"]
  /\ UNCHANGED <<docs, handshakeVars, storeVars, clientVars>>

SelInit ==
  /\ HandshakeInit
  /\ docs \in DocArrays
  /\ query = NoQuery
  /\ variant = "min"
  /\ StoreStart
  /\ ClientIdle

SelNext ==
  \/ closestServer
  \/ closestServerLowest
  \/ FindRejected

SelSpec == SelInit /\ [][SelNext]_vars

\* ------------------------------------------- the database at work
\* latencyColl.updateOne(filter, update, {upsert: true}) as MongoDB runs
\* it.  The programs create no unique index on (userId, region), so the
\* server looks for a document that matches the filter and, when there
\* is none, inserts one, as two steps: calls that arrive while the
\* collection holds no match each insert.  An update of a matched
\* document is atomic.  The handlers that wait for these calls are in
\* Spec; here the calls are drawn with their arguments.
\*
\* The programs of the repository send three forms of update:
\*   "min"    $set lastPingMs, updatedAt; $min lowestPingMs; $setOnInsert
\*            createdAt (src/unnamed/part_001, lines 404-418);
\*   "set"    $set lastPingMs, updatedAt, createdAt (src/server.ts, lines
\*            397-410);
\*   "plain"  $set lastPingMs, updatedAt: the final round of
\*            src/unnamed/part_000 (lines 245-257), the second request of
\*            src/unnamed/part_002 (lines 86-98), POST /clientLatency
\*            (src/server.ts, lines 616-651) and the POST /reportLatency
\*            that measures on res "finish" (src/unnamed/part_001, lines
\*            602-640).
Variants == {"min", "set", "plain"}

\* avgRttMs and lowestRttMs of a sequence: the least sample is at most the
\* rounded mean.
Measured ==
  {p \in [avgRttMs : {80, 100}, lowestRttMs : {70, 90}] :
     p.lowestRttMs <= p.avgRttMs}

\* The plain form writes a number (avgRttMs, rttMs) or a string
\* (diffMs.toFixed(2)); POST /clientLatency writes the avgLatencyMs of
\* the request body, which it has only compared with undefined: a
\* number, a string, null or any other JSON value.  Numbers and decimal
\* strings are written here by their value in hundredths.
Forms == {"number", "fixed", "null", "other"}

\* A JSON value that is no number, no decimal string and not null: true,
\* "fast", [], {}.
JsonOther == [json |-> "other"]

JsonNumber(ms) == [string |-> FALSE, hundredths |-> 100 * ms]

\* Number.prototype.toFixed(2): the decimal string with two fraction
\* digits.
ToFixed2(ms) == [string |-> TRUE, hundredths |-> 100 * ms]

\* src/server.ts, lines 397-410: $set of lastPingMs, updatedAt and
\* createdAt.
UpdateOneSet(doc, h) ==
  IF doc = NoDoc
  THEN [lastPingMs |-> h.avgRttMs, updatedAt |-> h.updatedAt,
        createdAt |-> h.createdAt]
  ELSE [doc EXCEPT !.lastPingMs = h.avgRttMs,
                   !.updatedAt = h.updatedAt,
                   !.createdAt = h.createdAt]

\* The lastPingMs a call of the plain form writes.
PlainValue(h) ==
  CASE h.form = "number" -> JsonNumber(h.avgRttMs)
    [] h.form = "fixed" -> ToFixed2(h.avgRttMs)
    [] h.form = "null" -> Null
    [] h.form = "other" -> JsonOther

\* $set of lastPingMs and updatedAt.
UpdateOnePlain(doc, h) ==
  IF doc = NoDoc
  THEN [lastPingMs |-> PlainValue(h), updatedAt |-> h.updatedAt]
  ELSE [doc EXCEPT !.lastPingMs = PlainValue(h), !.updatedAt = h.updatedAt]

ApplyUpdate(doc, h) ==
  IF variant = "min" THEN UpdateOne(doc, h)
  ELSE IF variant = "set" THEN UpdateOneSet(doc, h)
  ELSE UpdateOnePlain(doc, h)

\* What the database at work leaves alone.
storeOther == <<nextSweep, tokenCount, tokenOf, tokenMap, testState,
                pending, latencyColl, resp, hist, docs, query, clientVars>>

\* new Date() in a later argument of the call, after one that read t:
\* t or any time the clock can have moved on to.
StoreDate(t) == {t} \cup (t..MaxStoreTime)

\* A handler calls updateOne.  The arguments are evaluated in the order
\* they are written: `new Date()` for updatedAt and, in the forms that
\* have it, `new Date()` for createdAt after it; the plain form sends
\* no createdAt and its field here is not read.  form: what kind of
\* value the call writes as lastPingMs; the forms "min" and "set" write
\* the number avgRttMs.
CallUpdateOne(userId, p, form) ==
  /\ calls < MaxUpserts
  /\ form # "number" => variant = "plain"
  /\ calls' = calls + 1
  /\ \E updatedAt \in StoreDate(now) :
       \E createdAt \in IF variant = "plain" THEN {updatedAt}
                        ELSE StoreDate(updatedAt) :
         /\ inflight' = inflight \cup
              {[id |-> calls + 1, userId |-> userId,
                avgRttMs |-> p.avgRttMs, lowestRttMs |-> p.lowestRttMs,
                form |-> form, updatedAt |-> updatedAt,
                createdAt |-> createdAt, phase |-> "query"]}
         /\ now' = createdAt
  /\ UNCHANGED <<variant, stored, applied, storeOther>>

\* The filter matches: the first matching document is updated.
Matched(h) ==
  /\ h.phase = "query"
  /\ stored[h.userId] # << >>
  /\ stored' = [stored EXCEPT ![h.userId][1] = ApplyUpdate(@, h)]
  /\ inflight' = inflight \ {h}
  /\ applied' = [applied EXCEPT ![h.userId] = Append(@, h)]
  /\ UNCHANGED <<now, variant, calls, storeOther>>

\* The filter matches nothing: the call goes on to insert.
NotMatched(h) ==
  /\ h.phase = "query"
  /\ stored[h.userId] = << >>
  /\ inflight' = (inflight \ {h}) \cup {[h EXCEPT !.phase = "insert"]}
  /\ UNCHANGED <<now, variant, calls, stored, applied, storeOther>>

\* The insert of an upsert that found no match.
Inserted(h) ==
  /\ h.phase = "insert"
  /\ stored' = [stored EXCEPT ![h.userId] =
                  Append(@, ApplyUpdate(NoDoc, h))]
  /\ inflight' = inflight \ {h}
  /\ applied' = [applied EXCEPT ![h.userId] =
                   Append(@, [h EXCEPT !.phase = "query"])]
  /\ UNCHANGED <<now, variant, calls, storeOther>>

\* The call fails before it has changed anything.
CallRejected(h) ==
  /\ h.phase = "query"
  /\ inflight' = inflight \ {h}
  /\ UNCHANGED <<now, variant, calls, stored, applied, storeOther>>

StoreTick ==
  /\ now < MaxStoreTime
  /\ now' = now + 1
  /\ UNCHANGED <<storeVars, storeOther>>

StoreInit ==
  /\ HandshakeInit
  /\ docs = << >>
  /\ query = NoQuery
  /\ variant \in Variants
  /\ StoreStart
  /\ ClientIdle

StoreNext ==
  \/ \E userId \in UserIds, p \in Measured, form \in Forms :
       CallUpdateOne(userId, p, form)
  \/ \E h \in inflight : Matched(h)
  \/ \E h \in inflight : NotMatched(h)
  \/ \E h \in inflight : Inserted(h)
  \/ \E h \in inflight : CallRejected(h)
  \/ StoreTick

StoreSpec == StoreInit /\ [][StoreNext]_vars

\* ------------------------------- runTestForEndpoint and the limiter
\* One call of runTestForEndpoint against one server with
\* reportLatencyLimiter in front of the handler.  The call is suspended
\* at `await fetch(...)` and `await resp.json()` while its request is on
\* the way, while the server handles it and while the response is on the
\* way back; the clock and the timer run meanwhile.  When the body has
\* arrived the call runs on to its next `await fetch(...)` or returns;
\* when fetch or resp.json() rejects it returns nothing.  The server's
\* steps are those of Spec, taken on the request on the wire; no other
\* caller sends requests during the call.  The limiter's window of ten
\* minutes is longer than a run, so its counter is never reset.

\* The requests the limiter had counted in the window, from the same IP,
\* when the call begins: none, or some that were answered 400.
PriorHits ==
  {0, reportLatencyLimiterMax - 3, reportLatencyLimiterMax - 1,
   reportLatencyLimiterMax}

\* endpoint.name
EndpointName == "endpoint"

\* fetch(url, { method: "POST", body: JSON.stringify({ userId, token }) })
\* has been called and the server has not handled the request.
Request(userId, token) ==
  [dir |-> "request", userId |-> userId, token |-> token]

\* The server has answered and the client has not read the body.
Reply(body) == [dir |-> "reply", body |-> body]

\* The call has sent its first request.
NewClient(userId) ==
  [pc |-> "first", userId |-> userId, token |-> NoToken,
   totalIterations |-> 0, calls |-> 0, result |-> Undefined]

\* res.status(201).json({ name: "", avgRttMs: 0 })
LimiterResponse ==
  [kind |-> "limited", status |-> 201, token |-> NoToken, name |-> "",
   avgRttMs |-> 0, wrote |-> "none"]

\* The JSON body of a response, without its `message`.
Body(r) ==
  CASE r.kind = "limited" -> [name |-> r.name, avgRttMs |-> r.avgRttMs]
    [] r.kind = "token" ->
         [token |-> r.token, totalIterations |-> r.totalIterations]
    [] r.kind = "progress" ->
         [iterationSoFar |-> r.iterationSoFar,
          totalIterations |-> r.totalIterations]
    [] r.kind = "completed" ->
         [avgRttMs |-> r.avgRttMs, lowestPingMs |-> r.lowestPingMs,
          totalIterations |-> r.totalIterations]
    [] r.kind = "notfound" -> [error |-> "Token not found or expired."]
    [] r.kind = "invalid" -> [error |-> "Missing userId"]
    [] r.kind = "error" -> [error |-> "Internal server error"]

\* The response goes to the call that waits for it; a call that has
\* returned reads nothing.
Deliver(r) ==
  wire' = IF client.pc = "returned" THEN NoMessage ELSE Reply(Body(r))

\* data.f is not undefined.
Has(data, f) == f \in DOMAIN data

\* if (!data.token) return; else token and totalIterations are kept, the
\* loop is entered and its first request is sent.  calls counts the
\* requests sent with the token.
FirstData(c, data) ==
  IF ~Has(data, "token")
  THEN [c EXCEPT !.pc = "returned"]
  ELSE [c EXCEPT !.pc = "loop", !.token = data.token,
                 !.totalIterations = data.totalIterations, !.calls = 1]

\* One pass of `while (!done)`: if (data.avgRttMs !== undefined) return
\* { name, avgRttMs }; otherwise the loop goes on and sends the next
\* request.
LoopData(c, data) ==
  IF Has(data, "avgRttMs")
  THEN [c EXCEPT !.pc = "returned",
                 !.result = [name |-> EndpointName,
                             avgRttMs |-> data.avgRttMs]]
  ELSE [c EXCEPT !.calls = @ + 1]

\* What the call has on the wire after a step of its own.
Sent(c) ==
  IF c.pc = "loop" THEN Request(c.userId, c.token) ELSE NoMessage

\* The limiter answers the request in place of the handler.
RequestLimited ==
  /\ wire.dir = "request"
  /\ Limited
  /\ hits' = hits + 1
  /\ resp' = LimiterResponse
  /\ Deliver(resp')
  /\ UNCHANGED <<selVars, storeVars, client, now, nextSweep, tokenCount,
                 tokenOf, tokenMap, testState, pending, latencyColl, hist>>

\* The handler takes the request without a token: if (!token).
FirstHandled ==
  /\ wire.dir = "request"
  /\ wire.token = NoToken
  /\ CreateSession(wire.userId)
  /\ Deliver(resp')
  /\ UNCHANGED client

\* The handler takes a request with a token: 404.
NotFoundHandled ==
  /\ wire.dir = "request"
  /\ wire.token # NoToken
  /\ TokenNotFound(wire.userId, wire.token)
  /\ Deliver(resp')
  /\ UNCHANGED client

\* The handler takes a request with a token: the else branch.
RoundHandled ==
  /\ wire.dir = "request"
  /\ wire.token # NoToken
  /\ NextIteration(wire.userId, wire.token)
  /\ Deliver(resp')
  /\ UNCHANGED client

\* The handler takes a request with a token: the then branch up to the
\* await; no response yet.
FinalHandled ==
  /\ wire.dir = "request"
  /\ wire.token # NoToken
  /\ FinalIteration(wire.userId, wire.token)
  /\ wire' = NoMessage
  /\ UNCHANGED client

\* The write succeeded and the handler answers.
WriteResolved(h) ==
  /\ UpdateOneResolved(h)
  /\ Deliver(resp')
  /\ UNCHANGED client

\* The write failed and the handler answers 500.
WriteRejected(h) ==
  /\ UpdateOneRejected(h)
  /\ Deliver(resp')
  /\ UNCHANGED client

\* `let data = await resp.json()` of the first request has the body.
AfterFirst ==
  /\ client.pc = "first"
  /\ wire.dir = "reply"
  /\ client' = FirstData(client, wire.body)
  /\ wire' = Sent(client')
  /\ UNCHANGED <<handshakeVars, selVars, storeVars, hits>>

\* `data = await resp.json()` of a pass of the loop has the body.
AfterRound ==
  /\ client.pc = "loop"
  /\ wire.dir = "reply"
  /\ Has(wire.body, "avgRttMs") \/ client.calls < MaxClientCalls
  /\ client' = LoopData(client, wire.body)
  /\ wire' = Sent(client')
  /\ UNCHANGED <<handshakeVars, selVars, storeVars, hits>>

\* fetch or resp.json() rejects: catch (err) { console.error(...) }, the
\* call returns undefined.  A response on the way is lost; a request on
\* the way is lost or reaches the server all the same.
Caught ==
  /\ client.pc \in {"first", "loop"}
  /\ client' = [client EXCEPT !.pc = "returned"]
  /\ \E w \in {wire, NoMessage} :
       /\ wire.dir = "reply" => w = NoMessage
       /\ wire' = w
  /\ UNCHANGED <<handshakeVars, selVars, storeVars, hits>>

ClientInit ==
  /\ HandshakeInit
  /\ docs = << >>
  /\ query = NoQuery
  /\ variant = "min"
  /\ StoreStart
  /\ \E userId \in UserIds :
       /\ client = NewClient(userId)
       /\ wire = Request(userId, NoToken)
  /\ hits \in PriorHits

ClientNext ==
  \/ Tick
  \/ cleanupTokenMap
  \/ RequestLimited
  \/ FirstHandled
  \/ NotFoundHandled
  \/ RoundHandled
  \/ FinalHandled
  \/ \E h \in pending : WriteResolved(h)
  \/ \E h \in pending : WriteRejected(h)
  \/ AfterFirst
  \/ AfterRound
  \/ Caught

ClientSpec == ClientInit /\ [][ClientNext]_vars

\* ----------------------------------- the single-round POST handler
\* POST /reportLatency of src/unnamed/part_002 (lines 55-103): tokenMap
\* maps a token to the Date of the first request, the second request
\* measures and answers without waiting for the write, which finishes
\* later.  There is no timer.  tokenMap is the key set, testState[t] the
\* Date stored under t, pending the writes sent and not finished.

\* tokenMap.set(randomToken, startTracking)
Started(t) == [startTracking |-> t]

SingleTick ==
  /\ now < MaxSingleTime
  /\ now' = now + 1
  /\ UNCHANGED <<allOther, nextSweep, tokenCount, tokenOf,
                 tokenMap, testState, pending, latencyColl, resp, hist>>

\* if (!userId): 400.
SingleMissingUserId(token) ==
  /\ resp' = [kind |-> "invalid", status |-> 400, wrote |-> "none"]
  /\ UNCHANGED <<allOther, now, nextSweep, tokenCount, tokenOf,
                 tokenMap, testState, pending, latencyColl, hist>>

\* if (!token): the first request.
SingleFirstCall(userId) ==
  /\ userId # Missing
  /\ tokenCount < MaxTokens + 1
  /\ tokenCount' = tokenCount + 1
  /\ \E token \in RandomToken :
       LET session == tokenCount + 1
       IN /\ tokenOf' = [tokenOf EXCEPT ![session] = token]
          /\ tokenMap' = Set(token, session)
          /\ testState' = [t \in AllTokens |->
                             IF t = session THEN Started(now)
                             ELSE IF t = Get(token) THEN NoState
                             ELSE testState[t]]
          /\ resp' = [kind |-> "token", status |-> 200, token |-> token,
                      session |-> session, wrote |-> "none"]
  /\ UNCHANGED <<allOther, now, nextSweep, pending, latencyColl, hist>>

\* if (!startTracking): 404.
SingleNotFound(userId, token) ==
  /\ userId # Missing
  /\ token # NoToken
  /\ Get(token) = NoSession
  /\ resp' = [kind |-> "notfound", status |-> 404, token |-> token,
              wrote |-> "none"]
  /\ UNCHANGED <<allOther, now, nextSweep, tokenCount, tokenOf,
                 tokenMap, testState, pending, latencyColl, hist>>

\* new Date() in a statement after one that read t: t or any time the
\* clock can have moved on to.
SingleDate(t) == {t} \cup (t..MaxSingleTime)

\* The write the second request sends: $set {userId, region, lastPingMs,
\* updatedAt}, for the userId of the request; session says which entry
\* of the Map the request measured.
SingleWrite(userId, token, session, rttMs, updatedAt) ==
  [token |-> token, session |-> session, userId |-> userId,
   rttMs |-> rttMs, updatedAt |-> updatedAt]

\* Variant: the token stays in the Map.
SingleMeasureKeepsToken(userId, token) ==
  /\ userId # Missing
  /\ Get(token) # NoSession
  /\ LET rttMs == now - testState[Get(token)].startTracking
     IN /\ \E updatedAt \in SingleDate(now) :
             /\ pending' = pending \cup
                  {SingleWrite(userId, token, Get(token), rttMs,
                               updatedAt)}
             /\ now' = updatedAt
        /\ resp' = [kind |-> "rtt", status |-> 200, token |-> token,
                    session |-> Get(token), rttMs |-> rttMs, wrote |-> "none"]
  /\ hist' = [hist EXCEPT ![Get(token)] =
                [@ EXCEPT !.observed = Append(@, 1)]]
  /\ UNCHANGED <<allOther, nextSweep, tokenCount, tokenOf,
                 tokenMap, testState, latencyColl>>

\* The second request: rttMs from one `new Date()`, tokenMap.delete(token),
\* updateOne(...) with updatedAt from another and not awaited,
\* res.json({ rttMs }).
SingleMeasure(userId, token) ==
  /\ userId # Missing
  /\ Get(token) # NoSession
  /\ LET rttMs == now - testState[Get(token)].startTracking
     IN /\ \E updatedAt \in SingleDate(now) :
             /\ pending' = pending \cup
                  {SingleWrite(userId, token, Get(token), rttMs,
                               updatedAt)}
             /\ now' = updatedAt
        /\ resp' = [kind |-> "rtt", status |-> 200, token |-> token,
                    session |-> Get(token), rttMs |-> rttMs, wrote |-> "none"]
  /\ tokenMap' = tokenMap \ {Get(token)}
  /\ testState' = [testState EXCEPT ![Get(token)] = NoState]
  /\ hist' = [hist EXCEPT ![Get(token)] =
                [@ EXCEPT !.observed = Append(@, 1)]]
  /\ UNCHANGED <<allOther, nextSweep, tokenCount, tokenOf, latencyColl>>

\* The write succeeded: the document of (h.userId, SERVER_REGION) holds
\* lastPingMs and updatedAt of the call.
SingleWriteResolved(h) ==
  /\ h \in pending
  /\ pending' = pending \ {h}
  /\ latencyColl' = [latencyColl EXCEPT ![h.userId] =
                       [lastPingMs |-> h.rttMs, updatedAt |-> h.updatedAt]]
  /\ UNCHANGED <<allOther, now, nextSweep, tokenCount, tokenOf,
                 tokenMap, testState, resp, hist>>

\* The write failed: .catch logs the error.
SingleWriteRejected(h) ==
  /\ h \in pending
  /\ pending' = pending \ {h}
  /\ UNCHANGED <<allOther, now, nextSweep, tokenCount, tokenOf,
                 tokenMap, testState, latencyColl, resp, hist>>

SingleInit == Init

SingleNext ==
  \/ SingleTick
  \/ \E token \in AllTokens \cup {NoToken} : SingleMissingUserId(token)
  \/ \E userId \in UserIds : SingleFirstCall(userId)
  \/ \E userId \in UserIds, token \in AllTokens :
       SingleNotFound(userId, token)
  \/ \E userId \in UserIds, token \in AllTokens :
       SingleMeasure(userId, token)
  \/ \E h \in pending : SingleWriteResolved(h)
  \/ \E h \in pending : SingleWriteRejected(h)

SingleSpec == SingleInit /\ [][SingleNext]_vars

\* ------------------------------------------------------------ claims
N == DEFAULT_TOTAL_ITERATIONS

WaitingOn(t) == {h \in pending : h.session = t}

\* The session of t is in tokenMap and older than EXPIRATION_MS.
TooOld(t) ==
  t \in tokenMap /\ now - testState[t].startTracking > EXPIRATION_MS

\* C1: a completed response answers exactly the N-th call on its token,
\* the token is then absent from tokenMap, and the response carries
\* avgRttMs = round(S / N), S the sum of the token's N samples.
C1_AverageAfterNCalls ==
  resp.kind = "completed" =>
    /\ resp.call = N
    /\ resp.session \notin tokenMap
    /\ resp.avgRttMs = MathRound(resp.sumN, N)

\* C2: every session in tokenMap has 0 <= iteration <= totalIterations.
C2_IterationBounded ==
  \A t \in tokenMap :
    /\ 0 <= testState[t].iteration
    /\ testState[t].iteration <= testState[t].totalIterations

\* C3: for a token at most one completed response is sent and at most one
\* upsert is issued.
C3_SingleCompletion ==
  \A t \in Tokens : hist[t].completed <= 1 /\ hist[t].upserts <= 1

\* C4: the calls that advance a token produce the iteration values
\* 1, 2, 3, ... in order: none twice, none skipped; a token that got a
\* completed response has had every value 1..N produced.
C4_EachIterationOnce ==
  \A t \in Tokens :
    /\ hist[t].observed = [i \in 1..Len(hist[t].observed) |-> i]
    /\ t \in tokenMap => testState[t].iteration = Len(hist[t].observed)
    /\ hist[t].completed > 0 => Len(hist[t].observed) >= N

\* Two calls on one token are in flight together.
C4_Witness ==
  \E t \in Tokens : Cardinality(WaitingOn(t)) >= 2

\* C5: the call whose upsert failed is answered with the completed
\* response.
C5_CompletedDespiteWriteFailure ==
  resp.wrote = "failed" => resp.kind = "completed"

\* C6: after a final round whose upsert failed the token is absent from
\* tokenMap.
C6_RemovedDespiteWriteFailure ==
  resp.wrote = "failed" => resp.session \notin tokenMap

\* C7: no write is in flight for a token that is still in tokenMap.
C7_RemovedBeforeWrite ==
  \A h \in pending : h.session \notin tokenMap

\* C8: a completed response is sent only when the upsert of its call has
\* finished: a token never has more completed responses than finished
\* upserts, and a completed response tells how its write ended.
C8_ResponseAfterWrite ==
  /\ \A t \in Tokens : hist[t].completed <= hist[t].finished
  /\ resp.kind = "completed" => resp.wrote \in {"ok", "failed"}

\* A completed response has been sent.
C8_Witness ==
  resp.kind = "completed" /\ hist[resp.session].finished >= 1

\* C9: a call on a token whose session is older than EXPIRATION_MS does not
\* advance the session.
C9_NoAdvanceAfterExpiry ==
  [][\A t \in Tokens :
       TooOld(t) => hist'[t].observed = hist[t].observed]_vars

\* C10: with the timer running, a session in tokenMap older than
\* EXPIRATION_MS is eventually absent, unless a call renews it first (the
\* timer has a due time left within the run); an absent session stays
\* absent, no call advances it, and a call that carries its token can
\* only be answered 404 as long as tokenMap holds no later session under
\* the same token.
C10_ExpiredEventuallyAbsent ==
  /\ \A t \in Tokens :
       (TooOld(t) /\ nextSweep <= MaxTime) ~> ~TooOld(t)
  /\ [](\A t \in Tokens, u \in UserIds :
          (t <= tokenCount /\ Get(tokenOf[t]) = NoSession) =>
            /\ ENABLED TokenNotFound(u, tokenOf[t])
            /\ ~ENABLED NextIteration(u, tokenOf[t])
            /\ ~ENABLED FinalIteration(u, tokenOf[t]))
  /\ [][\A t \in Tokens :
          (t <= tokenCount /\ t \notin tokenMap)
            => /\ t \notin tokenMap'
               /\ hist'[t].observed = hist[t].observed]_vars

\* A session was removed by the timer: absent with rounds left, no call of
\* its own having removed it.
C10_Witness ==
  \E t \in Tokens :
    /\ t <= tokenCount
    /\ t \notin tokenMap
    /\ Len(hist[t].observed) < N
    /\ resp.kind = "notfound" /\ resp.token = tokenOf[t]

\* The session table and the stored records, and the history of both.
tableAndRecords == <<tokenCount, tokenOf, tokenMap, testState, pending,
                     latencyColl, hist>>

\* C11: the timer never removes a token while a call on it is in
\* progress, that is, while its handler waits for its write.
C11_SweepSparesCallsInProgress ==
  [][nextSweep' # nextSweep =>
       \A t \in tokenMap : WaitingOn(t) # {} => t \in tokenMap']_vars

\* C12: a call whose token is not in tokenMap is answered 404, only so,
\* and the 404 step changes neither the session table nor the stored
\* records; a session that is not in tokenMap is not put there by any
\* step but its creation, is not advanced and gets no write started.
C12_UnknownTokenNotFound ==
  /\ [](resp.kind = "notfound" => resp.status = 404)
  /\ [](\A token \in Tokens, u \in UserIds :
          Get(token) = NoSession =>
            /\ ~ENABLED NextIteration(u, token)
            /\ ~ENABLED FinalIteration(u, token))
  /\ [][(resp' # resp /\ resp'.kind = "notfound") =>
          Get(resp'.token) = NoSession]_vars
  /\ [][\A t \in Tokens :
          t \notin tokenMap =>
            /\ tokenCount' = tokenCount => t \notin tokenMap'
            /\ hist'[t].observed = hist[t].observed
            /\ hist'[t].upserts = hist[t].upserts
            /\ \A h \in pending' \ pending : h.session # t
            /\ (resp' # resp /\ resp'.kind \in {"progress", "completed"})
                 => (resp'.session # t \/ WaitingOn(t) # {})]_vars
  /\ [][(resp' # resp /\ resp'.kind = "notfound") =>
          UNCHANGED tableAndRecords]_vars

\* A 404 for the token of a sequence that completed.
C12_Witness ==
  /\ resp.kind = "notfound"
  /\ \E t \in 1..tokenCount :
       tokenOf[t] = resp.token /\ hist[t].completed = 1

\* C13: a request without userId is answered 400 and changes neither the
\* session table nor the stored records, whatever token it carries.
C13_MissingUserIdChangesNothing ==
  /\ [](resp.kind = "invalid" => resp.status = 400)
  /\ [][(resp' # resp /\ resp'.kind = "invalid") =>
          UNCHANGED tableAndRecords]_vars

\* A 400 answered while a session is in progress.
C13_Witness ==
  /\ resp.kind = "invalid"
  /\ \E t \in tokenMap : testState[t].iteration >= 1

\* C14: the call that generates a token adds the session of that token
\* with iteration 0, sumOfRTTs 0, totalIterations the server's constant
\* and startTracking the time of the call; it answers {token,
\* totalIterations}, records no sample and starts no write.
C14_FirstCallCreatesFreshSession ==
  [][tokenCount' # tokenCount =>
       /\ tokenCount' = tokenCount + 1
       /\ resp'.kind = "token" /\ resp'.status = 200
       /\ resp'.totalIterations = DEFAULT_TOTAL_ITERATIONS
       /\ resp'.session \notin tokenMap
       /\ resp'.session \in tokenMap'
       /\ tokenMap' \ {resp'.session} \subseteq tokenMap
       /\ Get(resp'.token) = NoSession =>
            tokenMap' = tokenMap \cup {resp'.session}
       /\ tokenOf'[resp'.session] = resp'.token
       /\ testState'[resp'.session].iteration = 0
       /\ testState'[resp'.session].sumOfRTTs = 0
       /\ testState'[resp'.session].totalIterations = DEFAULT_TOTAL_ITERATIONS
       /\ testState'[resp'.session].startTracking = now
       /\ \A t \in AllTokens :
            /\ hist'[t].observed = hist[t].observed
            /\ hist'[t].upserts = hist[t].upserts
       /\ UNCHANGED <<pending, latencyColl>>]_vars

\* A session created after the clock has moved.
C14_Witness ==
  /\ resp.kind = "token"
  /\ now > 0
  /\ testState[resp.session].startTracking = now

\* The tokens drawn so far.
Drawn == {tokenOf[s] : s \in 1..tokenCount}

\* C15: the random draw not repeating an earlier one (the repeat is what
\* the specification tells to treat as negligible), the call that
\* creates a session answers with a token under which tokenMap holds no
\* session, and every session of tokenMap stays there as it is, with
\* its history and the handlers that wait on it; nothing is written.
C15_FreshTokenNoOverwrite ==
  [][(tokenCount' # tokenCount /\ resp'.token \notin Drawn) =>
       /\ Get(resp'.token) = NoSession
       /\ resp'.session \in tokenMap'
       /\ \A t \in tokenMap' :
            tokenOf'[t] = resp'.token <=> t = resp'.session
       /\ \A t \in tokenMap :
            /\ t \in tokenMap'
            /\ t # resp'.session
            /\ tokenOf'[t] = tokenOf[t]
            /\ testState'[t] = testState[t]
            /\ hist'[t] = hist[t]
       /\ UNCHANGED <<pending, latencyColl>>]_vars

\* A session was created, under a token of its own, while another
\* session of the same user was two rounds into its sequence.
C15_Witness ==
  /\ resp.kind = "token"
  /\ resp.session = 2
  /\ tokenMap = {1, 2}
  /\ tokenOf[1] # tokenOf[2]
  /\ testState[1].userId = testState[2].userId
  /\ testState[1].iteration = 2
  /\ testState[2].iteration = 0

\* C16: a call that advances a session adds exactly 1 to iteration; the
\* k-th such call, k < totalIterations, answers in-progress with
\* iterationSoFar = k and the session's totalIterations; an in-progress
\* answer never carries iterationSoFar >= totalIterations.
C16_ProgressCountsRounds ==
  /\ [](resp.kind = "progress" =>
         /\ 1 <= resp.iterationSoFar
         /\ resp.iterationSoFar < resp.totalIterations)
  /\ [][\A t \in Tokens :
          hist'[t].observed # hist[t].observed =>
            LET k == Len(hist'[t].observed)
            IN /\ t \in tokenMap
               /\ testState'[t].iteration = testState[t].iteration + 1
               /\ k < testState[t].totalIterations =>
                    /\ resp'.kind = "progress"
                    /\ resp'.session = t
                    /\ resp'.iterationSoFar = k
                    /\ resp'.totalIterations = testState[t].totalIterations
         ]_vars

\* The last in-progress answer of a sequence.
C16_Witness ==
  /\ resp.kind = "progress"
  /\ resp.iterationSoFar = DEFAULT_TOTAL_ITERATIONS - 1

\* C17: as long as a token stays in tokenMap, no step (a round on it or
\* on another token, the timer, the creation of another session) changes
\* the userId or the totalIterations of its session.
C17_UserAndTotalFixed ==
  [][\A t \in AllTokens :
       (t \in tokenMap /\ t \in tokenMap') =>
         /\ testState'[t].userId = testState[t].userId
         /\ testState'[t].totalIterations = testState[t].totalIterations]_vars

\* Two sessions of different users after rounds on one, the creation of
\* the other and a run of the timer.
C17_Witness ==
  /\ tokenMap = {1, 2}
  /\ testState[1].userId # testState[2].userId
  /\ testState[1].iteration >= 1
  /\ testState[2].iteration >= 1
  /\ nextSweep > CLEANUP_INTERVAL_MS

\* The field the answer compared, read from each document.
Metrics == {docs[i][query.by] : i \in 1..Len(docs)}

\* C18: the document GET /closestServer returns has a value of the
\* compared field (lastPingMs, or lowestPingMs in the variant that tracks
\* it) that is <= the value of every document of the user.
C18_ClosestIsMinimal ==
  (query.status = 200 /\ query.closest # Null) =>
    /\ \E i \in 1..Len(docs) :
         /\ docs[i].region = query.closest.region
         /\ docs[i][query.by] = query.closest[query.by]
    /\ \A v \in Metrics : query.closest[query.by] <= v

\* A region returned although an earlier document of the array is worse.
C18_Witness ==
  /\ query.status = 200 /\ query.closest # Null
  /\ Len(docs) = MaxDocs
  /\ docs[1][query.by] > query.closest[query.by]
  /\ docs[1].region # query.closest.region

\* C19: in every variant, the one that compares lowestPingMs included, a
\* region is returned exactly when the user has documents and the least
\* value of the compared field is <= LATENCY_CLOSE_THRESHOLD_MS; when it
\* is above, the answer is "above threshold".
C19_RegionIffWithinThreshold ==
  query.status = 200 =>
    /\ query.closest # Null <=>
         \E v \in Metrics : v <= LATENCY_CLOSE_THRESHOLD_MS
    /\ (docs # << >> /\ \A v \in Metrics : v > LATENCY_CLOSE_THRESHOLD_MS)
         => query.msg = "above threshold"

\* C20: for a user without documents the answer is a normal one (200,
\* closest null, "No data ...") and no user with documents gets it.
C20_NoDataIsDistinct ==
  query.found =>
    /\ docs = << >> =>
         /\ query.status = 200
         /\ query.closest = Null
         /\ query.msg = "No data from any server"
    /\ docs # << >> => query.msg # "No data from any server"

\* Both answers with closest null have been given: this one is "no data".
C20_Witness ==
  /\ docs = << >>
  /\ query.found
  /\ query.msg = "No data from any server"
  /\ query.by = "lastPingMs"

\* The first position of docs that holds the least value of the compared
\* field.
FirstMinimal ==
  CHOOSE i \in 1..Len(docs) :
    /\ \A j \in 1..Len(docs) : docs[i][query.by] <= docs[j][query.by]
    /\ \A j \in 1..(i - 1) : docs[j][query.by] > docs[i][query.by]

\* C21: GET /closestServer answers the same for the same documents, and
\* of several documents with the least value it returns the one that
\* comes first in the array find() returned.
C21_FirstOfTiesSameAnswer ==
  /\ []((query.status = 200 /\ query.closest # Null) =>
          query.closest.region = docs[FirstMinimal].region)
  /\ [][(query.found /\ query'.found /\ query.status = 200
          /\ query'.status = 200 /\ query'.by = query.by /\ docs' = docs)
         => query' = query]_vars

\* Two documents share the least value and neither is the array's first.
C21_Witness ==
  /\ query.status = 200 /\ query.closest # Null
  /\ Len(docs) = MaxDocs
  /\ docs[2][query.by] = docs[3][query.by]
  /\ docs[1][query.by] > docs[2][query.by]
  /\ query.closest.region = docs[2].region

\* The timer's run removes the tokens older than EXPIRATION_MS, a token
\* of age EXPIRATION_MS stays, and the sessions that stay are unchanged.
SweepDeletesExactlyTooOld ==
  nextSweep' # nextSweep =>
    /\ tokenMap' = {t \in tokenMap : ~TooOld(t)}
    /\ \A t \in tokenMap' : testState'[t] = testState[t]

\* A call on token t is answered 404 although the sequence has not
\* completed, all its calls came within EXPIRATION_MS of one another
\* (their gaps add up to no more than that) and the latest of them, the
\* final round still waiting for its write, is no older than that.
PromptCallNotFound(t) ==
  /\ resp' # resp
  /\ resp'.kind = "notfound" /\ resp'.token = tokenOf[t]
  /\ hist[t].completed = 0
  /\ Len(hist[t].observed) = N
  /\ hist[t].sumN <= EXPIRATION_MS
  /\ \E h \in WaitingOn(t) : now - h.at <= EXPIRATION_MS

\* C27: the timer deletes exactly the sessions older than EXPIRATION_MS
\* and leaves the others as they are; so a client whose calls each come
\* within EXPIRATION_MS of the previous one gets no 404 before its
\* sequence has completed.
C27_SweepExactPromptClientSafe ==
  /\ [][SweepDeletesExactlyTooOld]_vars
  /\ [][\A t \in AllTokens : ~PromptCallNotFound(t)]_vars

\* C28 as stated: a session that has had no call since its startTracking
\* is out of tokenMap no later than EXPIRATION_MS + CLEANUP_INTERVAL_MS
\* after it.
C28_AbsentWithinBound ==
  \A t \in tokenMap :
    testState[t].iteration < testState[t].totalIterations =>
      now - testState[t].startTracking
        <= EXPIRATION_MS + CLEANUP_INTERVAL_MS

\* C28: a session older than EXPIRATION_MS is gone after the timer's
\* next run, and that run is due no later than EXPIRATION_MS +
\* CLEANUP_INTERVAL_MS after the session's startTracking; the run itself
\* may come after its due time.
C28_AbandonedGoneAfterNextSweep ==
  /\ [](\A t \in AllTokens :
          TooOld(t) =>
            nextSweep <= testState[t].startTracking + EXPIRATION_MS
                           + CLEANUP_INTERVAL_MS)
  /\ [][nextSweep' # nextSweep =>
          \A t \in tokenMap' :
            now - testState'[t].startTracking <= EXPIRATION_MS]_vars

\* A session that was created, never called and removed by the timer.
C28_Witness ==
  /\ resp.kind = "token"
  /\ resp.session \notin tokenMap
  /\ hist[resp.session].observed = << >>

\* C29: a session starts with sumOfRTTs = 0 and startTracking = the time
\* of its creation; each in-progress call sets startTracking to its own
\* time and adds the time since the previous startTracking to sumOfRTTs,
\* so startTracking - sumOfRTTs stays the time of creation: after k such
\* calls sumOfRTTs is the time of the k-th call minus the time of
\* creation.
C29_SumIsTimeSinceCreation ==
  [][\A t \in AllTokens :
       /\ (t \notin tokenMap /\ t \in tokenMap') =>
            /\ testState'[t].startTracking = now
            /\ testState'[t].sumOfRTTs = 0
       /\ (t \in tokenMap /\ t \in tokenMap') =>
            IF testState'[t].iteration = testState[t].iteration
            THEN testState'[t] = testState[t]
            ELSE testState'[t].iteration < testState'[t].totalIterations =>
                   /\ testState'[t].startTracking = now
                   /\ testState'[t].startTracking - testState'[t].sumOfRTTs
                        = testState[t].startTracking - testState[t].sumOfRTTs
    ]_vars

\* A session created at time 0 whose fourth call came after a run of the
\* timer and whose second call came at another time than the first.
C29_Witness ==
  \E t \in tokenMap :
    /\ testState[t].iteration = N - 1
    /\ testState[t].startTracking = now
    /\ testState[t].sumOfRTTs = now
    /\ now > CLEANUP_INTERVAL_MS
    /\ Value(testState[t].lowestRttMs) > 0

\* C30: lowestRttMs starts at MAX_SAFE_INTEGER and each call that
\* advances the session makes it the lesser of itself and the call's
\* elapsed time; a completed response returns it as lowestPingMs, and it
\* is <= the avgRttMs of the same response.
C30_LowestIsMinAndBelowAverage ==
  /\ [](resp.kind = "completed" => resp.lowestPingMs <= resp.avgRttMs)
  /\ [][\A t \in AllTokens :
          /\ (t \notin tokenMap /\ t \in tokenMap') =>
               testState'[t].lowestRttMs = MAX_SAFE_INTEGER
          /\ hist'[t].observed # hist[t].observed =>
               testState'[t].lowestRttMs =
                 MathMin(testState[t].lowestRttMs,
                         now - testState[t].startTracking)]_vars
  /\ [][(resp' # resp /\ resp'.kind = "completed") =>
          resp'.lowestPingMs
            = Value(testState[resp'.session].lowestRttMs)]_vars

\* A completed response after rounds of different lengths.
C30_Witness ==
  /\ resp.kind = "completed"
  /\ resp.call = N
  /\ resp.wrote = "ok"
  /\ resp.lowestPingMs < resp.avgRttMs

\* The lowestRttMs values of the calls applied for u.
Supplied(u) == {applied[u][k].lowestRttMs : k \in DOMAIN applied[u]}

MinOver(S) == CHOOSE m \in S : \A x \in S : m <= x

\* The call applied last for u.
LastApplied(u) == applied[u][Len(applied[u])]

\* C22: where lowestPingMs is stored, the value stored for (userId,
\* region) never increases and is the least of the values the applied
\* calls supplied.
C22_LowestIsWatermark ==
  /\ [](variant = "min" =>
         \A u \in UserIds : \A i \in DOMAIN stored[u] :
           stored[u][i].lowestPingMs = MinOver(Supplied(u)))
  /\ [][variant = "min" =>
          \A u \in UserIds : \A i \in DOMAIN stored[u] :
            stored'[u][i].lowestPingMs <= stored[u][i].lowestPingMs]_vars

\* The lastPingMs a call writes.
Written(h) == IF variant = "plain" THEN PlainValue(h) ELSE h.avgRttMs

\* C23: the lastPingMs stored for (userId, region) is the avgRttMs of the
\* call applied last for that pair.
C23_LatestAverageWins ==
  \A u \in UserIds : \A i \in DOMAIN stored[u] :
    stored[u][i].lastPingMs = Written(LastApplied(u))

\* C24: where createdAt is stored, no step changes the createdAt of a
\* stored document.
C24_CreatedAtFixed ==
  [][variant # "plain" =>
       \A u \in UserIds : \A i \in DOMAIN stored[u] :
         stored'[u][i].createdAt = stored[u][i].createdAt]_vars

\* C25: at most one document is stored per (userId, region), and no step
\* removes a stored document.
C25_OneRecordPerPair ==
  /\ [](\A u \in UserIds : Len(stored[u]) <= 1)
  /\ [][\A u \in UserIds : Len(stored'[u]) >= Len(stored[u])]_vars

\* C26: when the call applied for (userId, region) has the avgRttMs and
\* lowestRttMs of the call applied just before it, it leaves lastPingMs,
\* lowestPingMs and createdAt of what is stored for the pair as they
\* were.
C26_SameUpsertTwice ==
  [][\A u \in UserIds :
       (/\ applied[u] # << >>
        /\ applied'[u] # applied[u]
        /\ applied'[u][Len(applied'[u])].avgRttMs = LastApplied(u).avgRttMs
        /\ applied'[u][Len(applied'[u])].lowestRttMs
             = LastApplied(u).lowestRttMs
        /\ applied'[u][Len(applied'[u])].form = LastApplied(u).form)
       => \A i \in DOMAIN stored[u] :
            /\ stored'[u][i].lastPingMs = stored[u][i].lastPingMs
            /\ variant # "plain" =>
                 stored'[u][i].createdAt = stored[u][i].createdAt
            /\ variant = "min" =>
                 stored'[u][i].lowestPingMs = stored[u][i].lowestPingMs]_vars

\* C31: where lowestPingMs is stored, every stored document has
\* lowestPingMs <= lastPingMs, whatever calls were applied in whatever
\* order.
C31_StoredLowestBelowAverage ==
  variant = "min" =>
    \A u \in UserIds : \A i \in DOMAIN stored[u] :
      stored[u][i].lowestPingMs <= stored[u][i].lastPingMs

\* A lower average was applied after a higher one, to the same document.
C31_Witness ==
  /\ variant = "min"
  /\ \E u \in UserIds :
       /\ Len(stored[u]) = 1
       /\ Len(applied[u]) = 2
       /\ applied[u][1].avgRttMs > applied[u][2].avgRttMs
       /\ applied[u][1].lowestRttMs > applied[u][2].avgRttMs
       /\ stored[u][1].lowestPingMs < stored[u][1].lastPingMs

\* C32: latencyColl changes only when the write of a final round (a call
\* that left its session with iteration >= totalIterations) succeeds,
\* and only in the document of that session's user; a write is started
\* only by such a call.  The first call, the in-progress rounds, the 400
\* and 404 answers and the timer write nothing.
C32_OnlyFinalRoundsWrite ==
  /\ [][latencyColl' # latencyColl =>
          \E h \in pending \ pending' :
            /\ h.call >= testState[h.session].totalIterations
            /\ h.userId = testState[h.session].userId
            /\ \A u \in UserIds \ {h.userId} :
                 latencyColl'[u] = latencyColl[u]]_vars
  /\ [][\A h \in pending' \ pending :
          /\ hist'[h.session].observed # hist[h.session].observed
          /\ testState'[h.session].iteration
               >= testState'[h.session].totalIterations]_vars
  /\ [][(resp' # resp
          /\ resp'.kind \in {"token", "progress", "invalid", "notfound"})
         => UNCHANGED <<latencyColl, pending>>]_vars
  /\ [][nextSweep' # nextSweep => UNCHANGED <<latencyColl, pending>>]_vars

\* A document is stored, and a 404 answered later has left it alone.
C32_Witness ==
  /\ resp.kind = "notfound"
  /\ \E u \in UserIds :
       latencyColl[u] # NoDoc /\ latencyColl[u].updatedAt < now

\* C33: a call on a token in tokenMap advances its session whatever
\* userId the request carries, the session's own or another; the write
\* of the final round is made under the userId the session was created
\* with and changes the document of that user only.
C33_RequestUserIdNotCompared ==
  /\ \A t \in tokenMap : \A u \in UserIds :
       ENABLED (/\ \/ NextIteration(u, tokenOf[t])
                   \/ FinalIteration(u, tokenOf[t])
                /\ testState'[t].iteration = testState[t].iteration + 1
                /\ testState'[t].userId = testState[t].userId)
  /\ \A h \in pending : h.userId = testState[h.session].userId
  /\ resp.kind = "completed" =>
       \A u \in UserIds :
         latencyColl[u] # NoDoc => hist[resp.session].finished >= 1

\* A sequence of u1 has completed and written the document of u1; there
\* is none of u2, whichever userId its rounds carried.
C33_Witness ==
  /\ resp.kind = "completed" /\ resp.wrote = "ok"
  /\ latencyColl["u1"] # NoDoc
  /\ latencyColl["u2"] = NoDoc

\* The handlers of calls on session t that end in this step.
Ending(t) == {h \in pending \ pending' : h.session = t}

\* A step of a call on the session of t: the call advances the session
\* (an in-progress round, or a final round up to its await), or the
\* handler of a final round goes on after its write.
CallOn(t) == hist'[t].observed # hist[t].observed \/ Ending(t) # {}

\* C34: a step of a call on the session of token t leaves the session
\* of every other token as it is, in or out of tokenMap, with its
\* history and the handlers that wait on it, also when the two sessions
\* have the same userId; the only document it changes is the one of the
\* userId of t's session, and it changes it when the write of a final
\* round on t has succeeded.
C34_OtherSessionsUntouched ==
  [][\A t \in AllTokens :
       CallOn(t) =>
         /\ \A t2 \in AllTokens :
              tokenOf[t2] # tokenOf[t] =>
                /\ testState'[t2] = testState[t2]
                /\ t2 \in tokenMap' <=> t2 \in tokenMap
                /\ tokenOf'[t2] = tokenOf[t2]
                /\ hist'[t2] = hist[t2]
                /\ {h \in pending' : h.session = t2} = WaitingOn(t2)
         /\ \A u \in UserIds :
              latencyColl'[u] # latencyColl[u] =>
                /\ u = testState[t].userId
                /\ Ending(t) # {}
                /\ resp'.kind = "completed"]_vars

\* The sequence of one session has completed and written the document
\* of its user while another session of the same user, created later
\* under another token, is in tokenMap.
C34_Witness ==
  /\ resp.kind = "completed" /\ resp.wrote = "ok"
  /\ resp.call = N
  /\ \E t2 \in tokenMap :
       /\ tokenOf[t2] # resp.token
       /\ latencyColl[testState[t2].userId] # NoDoc
       /\ testState[t2].startTracking > 0

\* C35: a request the limiter rejects creates no session, advances none
\* (the session of the token it carries included) and writes nothing; it
\* is answered by the limiter.
C35_LimitedRequestChangesNothing ==
  [][(hits' # hits /\ hits' > reportLatencyLimiterMax) =>
       /\ UNCHANGED <<tokenCount, tokenOf, tokenMap, testState, pending,
                      latencyColl>>
       /\ resp'.kind = "limited"]_vars

\* The limiter has answered a request that carried the token of a
\* session in tokenMap, two rounds into its sequence.
C35_Witness ==
  /\ resp.kind = "limited"
  /\ Get(client.token) # NoSession
  /\ testState[Get(client.token)].iteration = 2
  /\ client.calls = 3

\* C36: a runTestForEndpoint call that holds a token has sent at most
\* totalIterations requests with it, whatever the responses were.
C36_ClientSendsAtMostNRounds ==
  client.pc \in {"loop", "returned"} /\ client.token # NoToken =>
    client.calls <= client.totalIterations

\* C37: runTestForEndpoint returns { name, avgRttMs } only when the last
\* response is the server's completed response for its token, and the
\* avgRttMs returned is the one of that response.
C37_ResultOnlyFromCompletion ==
  client.pc = "returned" /\ client.result # Undefined =>
    /\ resp.kind = "completed"
    /\ resp.token = client.token
    /\ client.result.avgRttMs = resp.avgRttMs

\* C38: in the single-round handler a token is measured at most once:
\* while the write of its measurement is in flight, and ever after, the
\* token is not in tokenMap, a request carrying it can only be answered
\* 404, and the response with rttMs is sent in the step that sends the
\* write; the end of the write, success or failure, changes neither the
\* response nor tokenMap.
C38_SingleUseToken ==
  /\ [](\A h \in pending : h.session \notin tokenMap)
  /\ [](\A t \in AllTokens :
          /\ Len(hist[t].observed) <= 1
          /\ Len(hist[t].observed) = 1 =>
               /\ t \notin tokenMap
               /\ Get(tokenOf[t]) = NoSession =>
                    \A u \in UserIds :
                      /\ ENABLED SingleNotFound(u, tokenOf[t])
                      /\ ~ENABLED SingleMeasure(u, tokenOf[t]))
  /\ [][\A h \in pending' \ pending :
          /\ resp'.kind = "rtt"
          /\ resp'.session = h.session
          /\ resp'.rttMs = h.rttMs
          /\ h.session \in tokenMap]_vars
  /\ [][pending' # pending /\ pending' \subseteq pending =>
          UNCHANGED <<resp, tokenMap, testState>>]_vars

\* A request with a measured token was answered 404 while the write of
\* the measurement was in flight; the write of another token has failed.
C38_Witness ==
  /\ resp.kind = "notfound"
  /\ \E h \in pending : h.token = resp.token /\ h.rttMs > 0
  /\ \E t \in AllTokens :
       /\ Len(hist[t].observed) = 1
       /\ tokenOf[t] # resp.token
       /\ \A h \in pending : h.session # t
       /\ \A u \in UserIds : latencyColl[u] = NoDoc

====
